---- MODULE Spec2Model ----
(***************************************************************************)
(* Model of amaroo_account_currency/models/account_move.py: the extension  *)
(* of account.move.line with user_currency_id / user_amount /              *)
(* exchange_rate, its onchange hooks and its currency-rate refresh.        *)
(*                                                                         *)
(* Float fields are exact fractions <<n, d>> (d > 0, lowest terms): one    *)
(* float division of two rates is the correctly rounded quotient, so       *)
(* equality of quotients is equality of fractions.  Monetary amounts       *)
(* (amount_currency, debit, credit) are integers in minor units.           *)
(* A recordset is a sequence of line ids, in iteration order.              *)
(***************************************************************************)
EXTENDS Integers, Sequences, FiniteSets, TLC

VARIABLES lines, parse_results, outcome, call, pre

vars == <<lines, parse_results, outcome, call, pre>>

----------------------------------------------------------------------------
(* Bounds and value sets *)

MaxRate == 2
MaxAmount == 1

LineIds == {1, 2}
Currencies == {"USD", "EUR"}
Providers == {"ecb", "banxico"}
Unset == "False"
Today == "today"

Rates == 1..MaxRate

----------------------------------------------------------------------------
(* Float arithmetic on fractions *)

RECURSIVE GCD(_, _)
GCD(a, b) == IF b = 0 THEN a ELSE GCD(b, a % b)

Abs(x) == IF x < 0 THEN -x ELSE x

Frac(n, d) ==
  LET g == GCD(Abs(n), Abs(d))
      s == IF d < 0 THEN -1 ELSE 1
  IN  <<(s * n) \div g, (s * d) \div g>>

FloatOf(n) == <<n, 1>>
Div(a, b) == Frac(a[1] * b[2], a[2] * b[1])
Mul(a, b) == Frac(a[1] * b[1], a[2] * b[2])
Truthy(f) == f[1] # 0

----------------------------------------------------------------------------
(* Results of a provider's parse function *)

Dicts ==
  UNION {[S -> {<<r, Today>> : r \in Rates}] : S \in SUBSET Currencies}

ParseFalse == [kind |-> "False", data |-> <<>>]
ParseDict(d) == [kind |-> "dict", data |-> d]
NotCalled == [kind |-> "notcalled", data |-> <<>>]

ParseResults == {ParseFalse} \cup {ParseDict(d) : d \in Dicts}

----------------------------------------------------------------------------
(* _group_by_provider: the dictionary provider -> companies, as the        *)
(* sequence of its items in insertion order.                               *)

(* line.company_id is the related field move_id.company_id. *)
company_id(line) == line.move_id.company_id

IndexOf(rslt, provider) ==
  IF \E i \in 1..Len(rslt) : rslt[i].provider = provider
  THEN CHOOSE i \in 1..Len(rslt) : rslt[i].provider = provider
  ELSE 0

RECURSIVE group_loop(_, _, _)
group_loop(ls, self, rslt) ==
  IF self = <<>> THEN rslt
  ELSE LET line == ls[Head(self)]
           p == company_id(line).currency_provider
           i == IndexOf(rslt, p)
       IN  IF p = Unset
           THEN group_loop(ls, Tail(self), rslt)
           ELSE IF i # 0
           THEN group_loop(ls, Tail(self),
                  [rslt EXCEPT ![i].companies = Append(@, company_id(line))])
           ELSE group_loop(ls, Tail(self),
                  Append(rslt, [provider |-> p, companies |-> <<company_id(line)>>]))

group_by_provider(ls, self) == group_loop(ls, self, <<>>)

----------------------------------------------------------------------------
(* _generate_currency_rates *)

BaseKey(line) == line.move_id.currency_id

RaisedInGenerate == "NameError"

RateValue(parsed_data, currency, base_currency_rate) ==
  Div(FloatOf(parsed_data[currency][1]), FloatOf(base_currency_rate))

apply_rates(line, parsed_data, base_currency_rate) ==
  IF line.user_currency_id \in DOMAIN parsed_data
  THEN [line EXCEPT !.exchange_rate =
          RateValue(parsed_data, line.user_currency_id, base_currency_rate)]
  ELSE line

RECURSIVE generate_loop(_, _, _)
generate_loop(ls, self, parsed_data) ==
  IF self = <<>> THEN [lines |-> ls, exc |-> "none"]
  ELSE LET id == Head(self)
           line == ls[id]
       IN  IF BaseKey(line) \notin DOMAIN parsed_data
           THEN [lines |-> ls, exc |-> RaisedInGenerate]
           ELSE generate_loop(
                  [ls EXCEPT ![id] =
                     apply_rates(line, parsed_data, parsed_data[BaseKey(line)][1])],
                  Tail(self), parsed_data)

generate_currency_rates(ls, self, parsed_data) ==
  generate_loop(ls, self, parsed_data)

----------------------------------------------------------------------------
(* update_currency_rates *)

RECURSIVE update_loop(_, _, _, _, _, _)
update_loop(ls, self, groups, parse, rslt, seen) ==
  IF groups = <<>>
  THEN [lines |-> ls, exc |-> "none", rslt |-> rslt, seen |-> seen]
  ELSE LET currency_provider == Head(groups).provider
           res == parse[currency_provider]
           seen2 == seen \cup {currency_provider}
       IN  IF res.kind = "False"
           THEN update_loop(ls, self, Tail(groups), parse, FALSE, seen2)
           ELSE LET g == generate_currency_rates(ls, self, res.data)
                IN  IF g.exc # "none"
                    THEN [lines |-> g.lines, exc |-> g.exc, rslt |-> rslt,
                          seen |-> seen2]
                    ELSE update_loop(g.lines, self, Tail(groups), parse, rslt, seen2)

update_currency_rates(ls, self, parse) ==
  update_loop(ls, self, group_by_provider(ls, self), parse, TRUE, {})

GroupProviders(ls, self) ==
  LET groups == group_by_provider(ls, self)
  IN  {groups[i].provider : i \in 1..Len(groups)}

Outcome(r) ==
  IF r.exc # "none" THEN r.exc ELSE IF r.rslt THEN "True" ELSE "False"

Recorded(parse, seen) ==
  [p \in Providers |-> IF p \in seen THEN parse[p] ELSE NotCalled]

----------------------------------------------------------------------------
(* Records *)

Companies ==
  [currency_provider : Providers \cup {Unset}, currency_id : Currencies]

Move(company, currency, is_invoice, reversed_entry_id) ==
  [company_id |-> company, currency_id |-> currency,
   is_invoice |-> is_invoice, reversed_entry_id |-> reversed_entry_id]

(* A line as the form creates it: exchange_rate has its default 1.0,       *)
(* price_unit is the platform's computed price, debit and credit are 0.    *)
NewLine(move, currency, user_currency, user_amount, amount_currency, computed) ==
  [move_id |-> move,
   currency_id |-> currency,
   user_currency_id |-> user_currency,
   user_amount |-> user_amount,
   exchange_rate |-> FloatOf(1),
   price_unit |-> computed,
   computed_price_unit |-> computed,
   amount_currency |-> amount_currency,
   debit |-> 0,
   credit |-> 0]

RateLine(company, currency, user_currency) ==
  NewLine(Move(company, currency, TRUE, FALSE), currency, user_currency, FloatOf(0), 0, FloatOf(0))

Call(op, self, returned) == [op |-> op, self |-> self, returned |-> returned]

Idle == Call("none", <<>>, "none")

Init ==
  /\ lines \in [LineIds ->
        {RateLine(c, m, u) :
           c \in Companies, m \in Currencies, u \in Currencies \cup {Unset}}]
  /\ parse_results = [p \in Providers |-> NotCalled]
  /\ outcome = "none"
  /\ call = Idle
  /\ pre = lines

Batch == <<1, 2>>



(* update_currency_rates on the recordset of both lines. *)
UpdateRates ==
  /\ call = Idle
  /\ \E parse \in [GroupProviders(lines, Batch) -> ParseResults] :
       LET r == update_currency_rates(lines, Batch, parse)
       IN  /\ lines' = r.lines
           /\ parse_results' = Recorded(parse, r.seen)
           /\ outcome' = Outcome(r)
           /\ call' = Call("update_currency_rates", Batch, "none")
           /\ pre' = lines

(* _onchange_user_currency_id: the form sets user_currency_id of one line,  *)
(* then the hook runs on that single record.                               *)
OnchangeUserCurrency ==
  /\ call = Idle
  /\ \E id \in LineIds, c \in Currencies \cup {Unset} :
       LET edited == [lines EXCEPT ![id].user_currency_id = c]
           parses == IF c # Unset
                     THEN [GroupProviders(edited, <<id>>) -> ParseResults]
                     ELSE {<<>>}
       IN  \E parse \in parses :
             LET r == IF c # Unset
                      THEN update_currency_rates(edited, <<id>>, parse)
                      ELSE [lines |-> edited, exc |-> "none", rslt |-> TRUE,
                            seen |-> {}]
             IN  /\ lines' = r.lines
                 /\ parse_results' = Recorded(parse, r.seen)
                 /\ outcome' = r.exc
                 /\ call' = Call("onchange_user_currency_id", <<id>>, "none")
                 /\ pre' = edited

(* The request ends: the handler's locals and its result are dropped,     *)
(* the field values stay.                                                  *)
EndRequest ==
  /\ call # Idle
  /\ parse_results' = [p \in Providers |-> NotCalled]
  /\ outcome' = "none"
  /\ call' = Idle
  /\ pre' = lines
  /\ UNCHANGED lines

Next == UpdateRates \/ OnchangeUserCurrency \/ EndRequest

Spec == Init /\ [][Next]_vars

----------------------------------------------------------------------------
(* _onchange_user_data *)

(* Variant of the hook that tests "or" where the code tests "and". *)
onchange_user_data_or(line) ==
  IF Truthy(line.exchange_rate) \/ Truthy(line.user_amount)
  THEN [line EXCEPT !.price_unit = Mul(line.exchange_rate, line.user_amount)]
  ELSE [line EXCEPT !.price_unit = line.computed_price_unit]

onchange_user_data(line) ==
  IF Truthy(line.exchange_rate) /\ Truthy(line.user_amount)
  THEN [line EXCEPT !.price_unit = Mul(line.exchange_rate, line.user_amount)]
  ELSE [line EXCEPT !.price_unit = line.computed_price_unit]

Amounts == (0 - MaxAmount)..MaxAmount

FormLine == 1

NoProviderCompany == [currency_provider |-> Unset, currency_id |-> "USD"]

QuietLine == RateLine(NoProviderCompany, "USD", Unset)

NoParse == [p \in Providers |-> NotCalled]

InitPrice ==
  /\ \E cp \in 0..MaxAmount, ua \in Amounts :
       lines = [id \in LineIds |->
                  IF id = FormLine
                  THEN NewLine(Move(NoProviderCompany, "USD", TRUE, FALSE),
                               "USD", Unset, FloatOf(ua), 0, FloatOf(cp))
                  ELSE QuietLine]
  /\ parse_results = NoParse
  /\ outcome = "none"
  /\ call = Idle
  /\ pre = lines

(* The form sets exchange_rate of the line, then the hook runs. *)
OnchangeExchangeRate ==
  /\ call = Idle
  /\ \E n \in 0..MaxRate, d \in Rates :
       LET edited == [lines EXCEPT ![FormLine].exchange_rate = Frac(n, d)]
       IN  /\ lines' = [edited EXCEPT ![FormLine] = onchange_user_data(@)]
           /\ pre' = lines
           /\ call' = Call("onchange_user_data", <<FormLine>>, "none")
           /\ outcome' = "none"
           /\ UNCHANGED parse_results

(* The form sets user_amount of the line, then the hook runs. *)
OnchangeUserAmount ==
  /\ call = Idle
  /\ \E a \in Amounts :
       LET edited == [lines EXCEPT ![FormLine].user_amount = FloatOf(a)]
       IN  /\ lines' = [edited EXCEPT ![FormLine] = onchange_user_data(@)]
           /\ pre' = lines
           /\ call' = Call("onchange_user_data", <<FormLine>>, "none")
           /\ outcome' = "none"
           /\ UNCHANGED parse_results

NextPrice == OnchangeExchangeRate \/ OnchangeUserAmount \/ EndRequest

SpecPrice == InitPrice /\ [][NextPrice]_vars

(* C7: after the hook has run on a change of exchange_rate or user_amount, *)
(* price_unit is exchange_rate * user_amount when both are non-zero, and   *)
(* the platform's computed price otherwise; in particular clearing         *)
(* user_amount after a manual price reverts price_unit to that default.    *)
C7_PriceUnit ==
  call.op = "onchange_user_data" =>
    LET line == lines[FormLine]
    IN  IF line.exchange_rate[1] # 0 /\ line.user_amount[1] # 0
        THEN line.price_unit[1] * line.exchange_rate[2] * line.user_amount[2]
               = line.exchange_rate[1] * line.user_amount[1] * line.price_unit[2]
        ELSE line.price_unit = line.computed_price_unit

C7_Witness ==
  /\ call.op = "onchange_user_data"
  /\ pre[FormLine].user_amount[1] # 0
  /\ pre[FormLine].exchange_rate[1] # 0
  /\ pre[FormLine].price_unit
       = Mul(pre[FormLine].exchange_rate, pre[FormLine].user_amount)
  /\ pre[FormLine].price_unit # pre[FormLine].computed_price_unit
  /\ lines[FormLine].user_amount[1] = 0
  /\ lines[FormLine].exchange_rate = pre[FormLine].exchange_rate
  /\ lines[FormLine].price_unit = lines[FormLine].computed_price_unit

----------------------------------------------------------------------------
(* _onchange_currency *)

(* res.currency._convert of the platform: the amount itself between equal  *)
(* currencies, else the amount times the platform's conversion rate.       *)
convert(from_amount, from_currency, to_currency, rate) ==
  IF from_currency = to_currency THEN from_amount ELSE from_amount * rate

(* Variant of the two assignments with debit and credit exchanged. *)
set_debit_credit_swapped(line, balance) ==
  [line EXCEPT !.debit = IF balance < 0 THEN 0 - balance ELSE 0,
               !.credit = IF balance > 0 THEN balance ELSE 0]

set_debit_credit(line, balance) ==
  [line EXCEPT !.debit = IF balance > 0 THEN balance ELSE 0,
               !.credit = IF balance < 0 THEN 0 - balance ELSE 0]

(* _onchange_price_subtotal of the platform rewrites amount_currency,      *)
(* debit and credit of an invoice line from its subtotal.                  *)
platform_onchange_price_subtotal(line, amount, balance) ==
  set_debit_credit([line EXCEPT !.amount_currency = amount], balance)

(* One iteration of the loop of _onchange_currency on line id.  subtotal is *)
(* what the platform computes for the line, rate its conversion rate and   *)
(* parse the parse functions' results.                                     *)
onchange_currency(ls, id, subtotal, rate, parse) ==
  LET line == ls[id]
      company == line.move_id.company_id
  IN  IF line.move_id.is_invoice
      THEN LET l1 == [ls EXCEPT ![id] =
                        platform_onchange_price_subtotal(@, subtotal,
                          convert(subtotal, line.currency_id, company.currency_id, rate))]
               r == update_currency_rates(l1, <<id>>, parse)
           IN  IF r.exc # "none"
               THEN [lines |-> r.lines, exc |-> r.exc, seen |-> r.seen,
                     balance |-> "none"]
               ELSE [lines |-> [r.lines EXCEPT ![id] = onchange_user_data(@)],
                     exc |-> "none", seen |-> r.seen, balance |-> "none"]
      ELSE IF ~line.move_id.reversed_entry_id
      THEN LET balance == convert(line.amount_currency, line.currency_id,
                                  company.currency_id, rate)
           IN  [lines |-> [ls EXCEPT ![id] = set_debit_credit(@, balance)],
                exc |-> "none", seen |-> {}, balance |-> balance]
      ELSE [lines |-> ls, exc |-> "none", seen |-> {}, balance |-> "none"]

(* The form sets currency_id of the line, then the hook runs on it. *)
OnchangeCurrency ==
  /\ call = Idle
  /\ \E c \in Currencies, rate \in Rates :
       LET edited == [lines EXCEPT ![FormLine].currency_id = c]
           invoice == edited[FormLine].move_id.is_invoice
       IN  \E subtotal \in IF invoice THEN Amounts ELSE {0},
              parse \in IF invoice
                        THEN [GroupProviders(edited, <<FormLine>>) -> ParseResults]
                        ELSE {<<>>} :
             LET r == onchange_currency(edited, FormLine, subtotal, rate, parse)
             IN  /\ lines' = r.lines
                 /\ parse_results' = Recorded(parse, r.seen)
                 /\ outcome' = r.exc
                 /\ call' = Call("onchange_currency", <<FormLine>>, r.balance)
                 /\ pre' = edited

----------------------------------------------------------------------------
(* update_currency_rates_manually *)

RetryLater == "UserError: try again in a moment"

(* What res.company.update_currency_rates of the platform does: it returns *)
(* True or False, or raises its own error.                                 *)
CompanyUpdateResults == {"True", "False", "UserError: not supported"}

(* Variant that raises when the company-level update succeeded. *)
update_currency_rates_manually_inverted(company_rslt) ==
  IF company_rslt \notin {"True", "False"} THEN company_rslt
  ELSE IF company_rslt = "True" THEN RetryLater
  ELSE "none"

update_currency_rates_manually(company_rslt) ==
  IF company_rslt \notin {"True", "False"} THEN company_rslt
  ELSE IF ~(company_rslt = "True") THEN RetryLater
  ELSE "none"

UpdateRatesManually ==
  /\ call = Idle
  /\ \E company_rslt \in CompanyUpdateResults :
       /\ outcome' = update_currency_rates_manually(company_rslt)
       /\ call' = Call("update_currency_rates_manually", <<FormLine>>, company_rslt)
       /\ pre' = lines
       /\ UNCHANGED <<lines, parse_results>>

InitMove ==
  /\ \E provider \in {Unset, "ecb"}, mc \in Currencies, inv \in BOOLEAN,
        rev \in BOOLEAN, uc \in {Unset, "EUR"}, ua \in 0..1, ac \in Amounts,
        balance \in Amounts :
       lines = [id \in LineIds |->
                  IF id = FormLine
                  THEN set_debit_credit(
                         NewLine(Move([currency_provider |-> provider,
                                       currency_id |-> "USD"], mc, inv, rev),
                                 mc, uc, FloatOf(ua), ac, FloatOf(1)),
                         balance)
                  ELSE QuietLine]
  /\ parse_results = NoParse
  /\ outcome = "none"
  /\ call = Idle
  /\ pre = lines

NextMove == OnchangeCurrency \/ UpdateRatesManually \/ EndRequest

SpecMove == InitMove /\ [][NextMove]_vars

----------------------------------------------------------------------------
(* Properties of the rate refresh, read off the state a call leaves. *)

RatesRan == call.op \in {"update_currency_rates", "onchange_user_currency_id"}

InSelf(id) == \E i \in 1..Len(call.self) : call.self[i] = id

Completed == outcome \in {"True", "False", "none"}

CalledDicts == {p \in Providers : parse_results[p].kind = "dict"}

BaseCurrency(id) == company_id(lines[id]).currency_id

ProviderOf(id) == company_id(lines[id]).currency_provider

(* rate = num / den, compared without dividing *)
IsQuotient(rate, num, den) == rate[1] * den = rate[2] * num

(* C1: when generateRates has run once, with a parsed map that contains    *)
(* the base currency of the line's company and the line's userCurrency X,  *)
(* the line's exchangeRate equals parsed[X].rate / parsed[base].rate.      *)
C1_RelativeToCompanyBase ==
  \A id \in LineIds, p \in Providers :
    (/\ RatesRan /\ Completed /\ InSelf(id)
     /\ CalledDicts = {p}
     /\ BaseCurrency(id) \in DOMAIN parse_results[p].data
     /\ lines[id].user_currency_id \in DOMAIN parse_results[p].data)
    => IsQuotient(lines[id].exchange_rate,
                  parse_results[p].data[lines[id].user_currency_id][1],
                  parse_results[p].data[BaseCurrency(id)][1])

(* C2: once a completed updateRates has applied rates to a line whose      *)
(* userCurrency is the base currency of its company, that line's           *)
(* exchangeRate is 1.0.                                                    *)
C2_BaseCurrencyIsOne ==
  \A id \in LineIds :
    (/\ RatesRan /\ Completed /\ InSelf(id)
     /\ lines[id].user_currency_id = BaseCurrency(id)
     /\ \E p \in CalledDicts :
          lines[id].user_currency_id \in DOMAIN parse_results[p].data)
    => lines[id].exchange_rate = FloatOf(1)

(* C3: if the map parsed for a line's provider (the only map parsed in the *)
(* call) lacks the base currency of the line's company, updateRates ends   *)
(* with an error and the line's exchangeRate is what it was before the     *)
(* call.  Any raised error is counted as the blocking error here.          *)
C3_MissingBaseBlocks ==
  \A id \in LineIds :
    (/\ RatesRan /\ InSelf(id)
     /\ CalledDicts = {ProviderOf(id)}
     /\ BaseCurrency(id) \notin DOMAIN parse_results[ProviderOf(id)].data)
    => /\ ~Completed
       /\ lines[id].exchange_rate = pre[id].exchange_rate

(* Every map that was parsed contains the company currency and the         *)
(* document currency of every line of its own provider group.              *)
OwnGroupsSupported ==
  \A id \in LineIds, p \in Providers :
    (InSelf(id) /\ ProviderOf(id) = p /\ parse_results[p].kind = "dict")
    => /\ BaseCurrency(id) \in DOMAIN parse_results[p].data
       /\ lines[id].move_id.currency_id \in DOMAIN parse_results[p].data

(* C4: when a provider group's parse function returns the failure          *)
(* sentinel (and every other map supports its own group), updateRates      *)
(* returns false without raising and has called the parse function of      *)
(* every provider group of the batch.                                      *)
C4_FailureIsTolerated ==
  (/\ call.op = "update_currency_rates"
   /\ \E p \in Providers : parse_results[p].kind = "False"
   /\ OwnGroupsSupported)
  => /\ outcome = "False"
     /\ \A id \in LineIds :
          ProviderOf(id) # Unset => parse_results[ProviderOf(id)].kind # "notcalled"

(* C5: when the parse function of the provider of all lines of the call    *)
(* returns an empty mapping, the call raises nothing, is not marked as     *)
(* failed and leaves every exchangeRate unchanged.                         *)
C5_EmptyMapIsSuccess ==
  \A p \in Providers :
    (/\ RatesRan
     /\ call.self # <<>>
     /\ \A id \in LineIds : InSelf(id) => ProviderOf(id) = p
     /\ parse_results[p] = ParseDict(<<>>))
    => /\ outcome \in {"True", "none"}
       /\ \A id \in LineIds : lines[id].exchange_rate = pre[id].exchange_rate

(* C6: a line whose company has no currencyProvider keeps its exchangeRate *)
(* through any updateRates call, whatever the other lines of the batch.    *)
C6_NoProviderUntouched ==
  \A id \in LineIds :
    (RatesRan /\ InSelf(id) /\ ProviderOf(id) = Unset)
    => lines[id].exchange_rate = pre[id].exchange_rate

(* C9: after a completed batch over two provider groups, the exchangeRate  *)
(* of a line whose own provider's map contains its company currency (here  *)
(* also its document currency) and its userCurrency is the quotient taken  *)
(* from that own map, not from the other group's map.                      *)
C9_OwnProviderOnly ==
  \A id \in LineIds :
    (/\ call.op = "update_currency_rates" /\ Completed /\ InSelf(id)
     /\ CalledDicts = Providers
     /\ ProviderOf(id) \in Providers
     /\ BaseCurrency(id) = lines[id].move_id.currency_id
     /\ BaseCurrency(id) \in DOMAIN parse_results[ProviderOf(id)].data
     /\ lines[id].user_currency_id \in DOMAIN parse_results[ProviderOf(id)].data)
    => IsQuotient(lines[id].exchange_rate,
                  parse_results[ProviderOf(id)].data[lines[id].user_currency_id][1],
                  parse_results[ProviderOf(id)].data[BaseCurrency(id)][1])

----------------------------------------------------------------------------
(* C8: updateRatesManually fails with the retry-later error exactly when   *)
(* the company-level update returned False, and raises nothing when it     *)
(* returned True.                                                          *)
C8_ManualRetryLater ==
  call.op = "update_currency_rates_manually" =>
    /\ (outcome = RetryLater) <=> (call.returned = "False")
    /\ (call.returned = "True") => (outcome = "none")

C8_Witness ==
  /\ call.op = "update_currency_rates_manually"
  /\ call.returned = "False"
  /\ outcome = RetryLater

(* C10: after the hook has run on a change of the posting currency of a    *)
(* line of a document that is no invoice or receipt: if the document is    *)
(* no reversal, debit and credit are the positive and the negative part    *)
(* of the converted balance; if it is a reversal they are unchanged.       *)
C10_DebitCredit ==
  (call.op = "onchange_currency" /\ ~lines[FormLine].move_id.is_invoice) =>
    LET line == lines[FormLine]
        b == call.returned
    IN  IF ~line.move_id.reversed_entry_id
        THEN /\ b > 0 => (line.debit = b /\ line.credit = 0)
             /\ b < 0 => (line.debit = 0 /\ line.credit = 0 - b)
             /\ b = 0 => (line.debit = 0 /\ line.credit = 0)
             /\ line.debit >= 0 /\ line.credit >= 0
             /\ line.debit = 0 \/ line.credit = 0
        ELSE /\ line.debit = pre[FormLine].debit
             /\ line.credit = pre[FormLine].credit

C10_Witness ==
  /\ call.op = "onchange_currency"
  /\ ~lines[FormLine].move_id.is_invoice
  /\ ~lines[FormLine].move_id.reversed_entry_id
  /\ call.returned < 0
  /\ pre[FormLine].debit > 0
  /\ lines[FormLine].debit = 0
  /\ lines[FormLine].credit = 0 - call.returned

====
